---- MODULE Spec2Model ----
(***************************************************************************)
(* A model of the FastAPI user/task backend of src/main.py over the two    *)
(* MongoDB collections of src/db.py.                                       *)
(*                                                                         *)
(* A request is a record r: its inputs (op, tok, id, body), its locals     *)
(* (cur = current_user, doc = the document a find_one returned, new = the  *)
(* document about to be inserted), its position pc (the next store call    *)
(* the coroutine awaits) and its answer (status, detail, out).  Every      *)
(* handler is an operator handler(r, S, now) that performs the store call  *)
(* named by r.pc on the store S = [users, tasks, nextOid] and then runs    *)
(* the handler's code up to its next await or its answer.                  *)
(*                                                                         *)
(* Values keep their Python type: an ObjectId is [t |-> "ObjectId", v],    *)
(* a str is [t |-> "str", v]; str(oid) and ObjectId(s) convert, and == on  *)
(* the two types is False as in Python.  The task's title and description  *)
(* take part in no decision and are left out.                              *)
(***************************************************************************)
EXTENDS Integers, Sequences, FiniteSets, TLC

VARIABLES users, tasks, nextOid, now, tokens, inflight

vars == <<users, tasks, nextOid, now, tokens, inflight>>

----
(* Bounds of the model *)

\* ObjectIds the process may generate (users and tasks together).
MaxOid == 3
\* Documents the users and the tasks collection hold.
MaxUsers == 2
MaxTasks == 1
\* The clock stops here.
MaxTime == 2
\* Tokens the clients keep.
MaxTokens == 2
\* Requests in flight together under SpecConc.
NumReq == 2

----
(* Program constants *)

ACCESS_TOKEN_EXPIRE_MINUTES == 30
DefaultExpireMinutes == 15
SecondsPerMinute == 60
SECRET_KEY == "your_secret_key_here"

----
(* Values *)

Emails == {"a@x", "b@x"}
Passwords == {"p1", "p2"}
Roles == {"admin", "editor", "viewer"}

None == [t |-> "None"]
NoSub == "<no sub>"

\* bson.ObjectId: the driver's native identifier, and Python's str of it.
Oid(i) == [t |-> "ObjectId", v |-> i]
Str(i) == [t |-> "str", v |-> i]
\* A path parameter that is no 24-digit hex string.
BadHex == Str(0)

\* str(oid)
str(x) == [t |-> "str", v |-> x.v]

\* ObjectId(s): parses a hex string; raises InvalidId (None here) otherwise.
ObjectId(s) == IF s.t = "str" /\ s.v >= 1 THEN [t |-> "ObjectId", v |-> s.v] ELSE None

\* ObjectId(): a fresh identifier.
NewObjectId(S) == Oid(S.nextOid)

----
(* The document store: a collection is the sequence of its documents in    *)
(* natural (insertion) order; find_one, update_one and delete_one act on   *)
(* the first document the filter matches.                                  *)

\* A document matches a filter document when it has each of its fields
\* with the same value.
Matches(coll, filter) ==
    {i \in 1..Len(coll) :
        \A f \in DOMAIN filter : f \in DOMAIN coll[i] /\ coll[i][f] = filter[f]}

First(coll, filter) ==
    CHOOSE i \in Matches(coll, filter) : \A j \in Matches(coll, filter) : i <= j

find_one(coll, filter) ==
    IF Matches(coll, filter) = {} THEN None ELSE coll[First(coll, filter)]

insert_one(coll, d) == Append(coll, d)

\* {"$set": upd} applied to one document.
Set(d, upd) == [f \in DOMAIN d \cup DOMAIN upd |-> IF f \in DOMAIN upd THEN upd[f] ELSE d[f]]

update_one(coll, filter, upd) ==
    IF Matches(coll, filter) = {}
    THEN [coll |-> coll, matched_count |-> 0]
    ELSE [coll |-> [coll EXCEPT ![First(coll, filter)] = Set(@, upd)], matched_count |-> 1]

delete_one(coll, filter) ==
    IF Matches(coll, filter) = {}
    THEN [coll |-> coll, deleted_count |-> 0]
    ELSE [coll |-> [i \in 1..(Len(coll) - 1) |->
                      IF i < First(coll, filter) THEN coll[i] ELSE coll[i + 1]],
          deleted_count |-> 1]

----
(* Password hasher (passlib's bcrypt context).  A hash is tagged with its  *)
(* scheme; a string that is no bcrypt hash is tagged "plain".  The salt    *)
(* is left out: it changes no verification result.                         *)

Plain(p) == [alg |-> "plain", of |-> p]

hash_password(password) == [alg |-> "bcrypt", of |-> password]

\* pwd_context.verify raises UnknownHashError on a string it cannot identify.
Identifiable(hashed_password) == hashed_password.alg = "bcrypt"

verify_password(plain_password, hashed_password) ==
    Identifiable(hashed_password) /\ hashed_password.of = plain_password

----
(* Token service (python-jose).  The clock counts seconds, the resolution  *)
(* of the exp claim.                                                       *)

timedelta(minutes) == [t |-> "timedelta", s |-> minutes * SecondsPerMinute]

\* Python's truth value of a timedelta-or-None: None and timedelta(0) are falsy.
Truthy(expires_delta) == expires_delta # None /\ expires_delta.s # 0

\* jwt.encode(to_encode, SECRET_KEY, algorithm=ALGORITHM)
jwt_encode(to_encode, key) == [kind |-> "jwt", sub |-> to_encode.sub, exp |-> to_encode.exp, sig |-> key]

create_access_token(data, expires_delta, t) ==
    LET expire == t + (IF Truthy(expires_delta) THEN expires_delta.s
                       ELSE timedelta(DefaultExpireMinutes).s)
    IN  jwt_encode([sub |-> data.sub, exp |-> expire], SECRET_KEY)

\* jose's expiry check: ExpiredSignatureError when exp < now.
Expired(exp, t) == exp < t

\* jwt.decode(token, SECRET_KEY, algorithms=[ALGORITHM]): the payload, or the
\* JWTError raised.
jwt_decode(token, key, t) ==
    IF token.kind # "jwt" THEN [ok |-> FALSE, why |-> "malformed", sub |-> NoSub]
    ELSE IF token.sig # key THEN [ok |-> FALSE, why |-> "bad-signature", sub |-> NoSub]
    ELSE IF Expired(token.exp, t) THEN [ok |-> FALSE, why |-> "expired", sub |-> NoSub]
    ELSE [ok |-> TRUE, why |-> "", sub |-> token.sub]

\* The lookup with a misspelt field name: no stored document has it.
FindByEmail_WrongField(coll, email) == find_one(coll, [mail |-> email])

\* users_collection.find_one({"email": email})
FindByEmail(coll, email) == find_one(coll, [email |-> email])

\* find_one({"_id": ObjectId(id)}) on either collection
FindById(coll, id) == find_one(coll, [_id |-> ObjectId(id)])

----
(* Requests *)

\* A request as the routing layer hands it to its handler.
Req(op, tok, id, body, pc) ==
    [op |-> op, tok |-> tok, id |-> id, body |-> body, pc |-> pc,
     cur |-> None, doc |-> None, new |-> None,
     writes |-> 0, status |-> 0, detail |-> "", headers |-> "", out |-> None]

\* return: the answer of a handler that returns (status_code of its route).
Return(r, code, message, out) ==
    [r EXCEPT !.pc = "done", !.status = code, !.detail = message, !.out = out]

\* raise HTTPException(status_code, detail)
HTTPException(r, status_code, detail) ==
    [r EXCEPT !.pc = "done", !.status = status_code, !.detail = detail]

\* log_requests: an exception that is no HTTPException reaches the middleware.
log_requests(r) == HTTPException(r, 500, "Internal Server Error")

\* "except Exception as e: raise HTTPException(status_code=500, detail=str(e))"
\* around a handler's body: it catches the HTTPExceptions the body raises too.
ExceptException(r) ==
    IF r.pc = "done" /\ r.status >= 400 THEN [r EXCEPT !.status = 500] ELSE r

Result(r, S) == [r |-> r, S |-> S]

\* The request has awaited insert_one, update_one or delete_one once more.
Wrote(r) == [r EXCEPT !.writes = @ + 1]

----
(* Identity resolver and role gate *)

\* credentials_exception, raised
credentials_exception(r) ==
    [HTTPException(r, 401, "Invalid or expired token") EXCEPT !.headers = "WWW-Authenticate: Bearer"]

\* An identity resolver that tells a token of a removed account apart.
get_current_user_Orphan(r, S, t) ==
    LET payload == jwt_decode(r.tok, SECRET_KEY, t)
        user == FindByEmail(S.users, payload.sub)
    IN  IF ~payload.ok THEN credentials_exception(r)
        ELSE IF payload.sub = NoSub THEN credentials_exception(r)
        ELSE IF user = None THEN HTTPException(r, 404, "User not found")
        ELSE [r EXCEPT !.cur = user]

\* An identity resolver that says which check failed.
get_current_user_Telling(r, S, t) ==
    LET payload == jwt_decode(r.tok, SECRET_KEY, t)
        user == FindByEmail(S.users, payload.sub)
    IN  IF ~payload.ok THEN HTTPException(credentials_exception(r), 401, payload.why)
        ELSE IF payload.sub = NoSub THEN credentials_exception(r)
        ELSE IF user = None THEN credentials_exception(r)
        ELSE [r EXCEPT !.cur = user]

\* get_current_user: r with current_user in r.cur, or answered 401.
get_current_user(r, S, t) ==
    LET payload == jwt_decode(r.tok, SECRET_KEY, t)
        user == FindByEmail(S.users, payload.sub)
    IN  IF ~payload.ok THEN credentials_exception(r)
        ELSE IF payload.sub = NoSub THEN credentials_exception(r)
        ELSE IF user = None THEN credentials_exception(r)
        ELSE [r EXCEPT !.cur = user]

\* A role gate that lets every authenticated user through.
check_role_AnyRole(r, required_roles) == r

\* check_role(required_roles) after get_current_user.
check_role(r, required_roles) ==
    IF r.pc = "done" THEN r
    ELSE IF r.cur.role \notin required_roles THEN HTTPException(r, 403, "Access forbidden")
    ELSE r

----
(* User handlers.  Each CASE arm is one store call (r.pc) and the code     *)
(* that follows it up to the next await.                                   *)

\* A login that refuses deactivated accounts.
login_for_access_token_ActiveOnly(r, S, t) ==
    LET user == FindByEmail(S.users, r.body.username)
    IN  IF user = None \/ ~user.isActived
        THEN Result(HTTPException(r, 401, "Incorrect email or password"), S)
        ELSE IF ~Identifiable(user.password)
        THEN Result(log_requests(r), S)
        ELSE IF ~verify_password(r.body.password, user.password)
        THEN Result(HTTPException(r, 401, "Incorrect email or password"), S)
        ELSE Result(Return([r EXCEPT !.doc = user], 200, "bearer",
                           create_access_token([sub |-> user.email],
                                               timedelta(ACCESS_TOKEN_EXPIRE_MINUTES), t)), S)

\* POST /token
login_for_access_token(r, S, t) ==
    LET user == FindByEmail(S.users, r.body.username)
    IN  IF user = None
        THEN Result(HTTPException(r, 401, "Incorrect email or password"), S)
        ELSE IF ~Identifiable(user.password)
        THEN Result(log_requests(r), S)
        ELSE IF ~verify_password(r.body.password, user.password)
        THEN Result(HTTPException(r, 401, "Incorrect email or password"), S)
        ELSE Result(Return([r EXCEPT !.doc = user], 200, "bearer",
                           create_access_token([sub |-> user.email],
                                               timedelta(ACCESS_TOKEN_EXPIRE_MINUTES), t)), S)

\* POST /users
create_user(r, S, t) ==
    CASE r.pc = "find" ->
           LET existing_user == FindByEmail(S.users, r.body.email)
               new_user == [_id |-> NewObjectId(S), email |-> r.body.email,
                            name |-> r.body.name,
                            password |-> hash_password(r.body.password),
                            role |-> r.body.role, isActived |-> r.body.isActived]
           IN  IF existing_user # None
               THEN Result(HTTPException(r, 400, "Email already exists"), S)
               ELSE Result([r EXCEPT !.pc = "insert", !.new = new_user],
                           [S EXCEPT !.nextOid = @ + 1])
      [] r.pc = "insert" ->
           Result(Return(Wrote(r), 201, "User created successfully", r.new),
                  [S EXCEPT !.users = insert_one(@, r.new)])

\* GET /users/me
read_users_me(r, S, t) ==
    LET a == get_current_user(r, S, t)
    IN  IF a.pc = "done" THEN Result(a, S)
        ELSE Result(Return(a, 200, "Authenticated",
                           [email |-> a.cur.email, name |-> a.cur.name]), S)

\* GET /users
get_users(r, S, t) ==
    CASE r.pc = "auth" ->
           LET a == check_role(get_current_user(r, S, t), {"admin"})
           IN  IF a.pc = "done" THEN Result(a, S)
               ELSE Result([a EXCEPT !.pc = "find"], S)
      [] r.pc = "find" ->
           Result(Return(r, 200, "", [n |-> Len(S.users)]), S)

\* The test of update_user and deactivate_user: the actor is the target or an admin.
SelfOrAdmin(current_user, user) ==
    ~(current_user.email # user.email /\ current_user.role # "admin")

\* PUT /users/{user_id}
update_user(r, S, t) ==
    CASE r.pc = "auth" ->
           LET a == get_current_user(r, S, t)
           IN  IF a.pc = "done" THEN Result(a, S)
               ELSE IF ObjectId(r.id) = None THEN Result(log_requests(a), S)
               ELSE Result([a EXCEPT !.pc = "find"], S)
      [] r.pc = "find" ->
           LET user == FindById(S.users, r.id)
           IN  IF user = None THEN Result(HTTPException(r, 404, "User not found"), S)
               ELSE IF ~SelfOrAdmin(r.cur, user)
               THEN Result(HTTPException([r EXCEPT !.doc = user], 403, "Not authorized"), S)
               ELSE Result([r EXCEPT !.pc = "update", !.doc = user], S)
      [] r.pc = "update" ->
           LET result == update_one(S.users, [_id |-> ObjectId(r.id)], r.body)
           IN  Result(Return(Wrote(r), 200, "User updated successfully", None),
                      [S EXCEPT !.users = result.coll])

\* PATCH /users/{user_id}/deactivate
deactivate_user(r, S, t) ==
    CASE r.pc = "auth" ->
           LET a == get_current_user(r, S, t)
           IN  IF a.pc = "done" THEN Result(a, S)
               ELSE IF ObjectId(r.id) = None THEN Result(log_requests(a), S)
               ELSE Result([a EXCEPT !.pc = "find"], S)
      [] r.pc = "find" ->
           LET user == FindById(S.users, r.id)
           IN  IF user = None THEN Result(HTTPException(r, 404, "User not found"), S)
               ELSE IF ~SelfOrAdmin(r.cur, user)
               THEN Result(HTTPException([r EXCEPT !.doc = user], 403,
                                         "Not authorized to deactivate this user"), S)
               ELSE Result([r EXCEPT !.pc = "update", !.doc = user], S)
      [] r.pc = "update" ->
           LET result == update_one(S.users, [_id |-> ObjectId(r.id)],
                                    [isActived |-> FALSE])
           IN  IF result.matched_count = 0
               THEN Result(HTTPException(Wrote(r), 500, "Failed to deactivate user"), S)
               ELSE Result(Return(Wrote(r), 200, "User is Deactivated", None),
                           [S EXCEPT !.users = result.coll])

\* delete_user with the role test after the delete_one.
delete_user_DeleteFirst(r, S, t) ==
    CASE r.pc = "auth" ->
           LET a == get_current_user(r, S, t)
           IN  IF a.pc = "done" THEN Result(a, S)
               ELSE IF ObjectId(r.id) = None THEN Result(log_requests(a), S)
               ELSE Result([a EXCEPT !.pc = "delete"], S)
      [] r.pc = "delete" ->
           LET result == delete_one(S.users, [_id |-> ObjectId(r.id)])
           IN  IF r.cur.role # "admin"
               THEN Result(HTTPException(Wrote(r), 403, "Not authorized to delete this user"),
                           [S EXCEPT !.users = result.coll])
               ELSE IF result.deleted_count = 0
               THEN Result(HTTPException(Wrote(r), 404, "User not found"), S)
               ELSE Result(Return(Wrote(r), 200, "User deleted successfully", None),
                           [S EXCEPT !.users = result.coll])

\* DELETE /users/{user_id}
delete_user(r, S, t) ==
    CASE r.pc = "auth" ->
           LET a == get_current_user(r, S, t)
           IN  IF a.pc = "done" THEN Result(a, S)
               ELSE IF a.cur.role # "admin"
               THEN Result(HTTPException(a, 403, "Not authorized to delete this user"), S)
               ELSE IF ObjectId(r.id) = None THEN Result(log_requests(a), S)
               ELSE Result([a EXCEPT !.pc = "delete"], S)
      [] r.pc = "delete" ->
           LET result == delete_one(S.users, [_id |-> ObjectId(r.id)])
           IN  IF result.deleted_count = 0
               THEN Result(HTTPException(Wrote(r), 404, "User not found"), S)
               ELSE Result(Return(Wrote(r), 200, "User deleted successfully", None),
                           [S EXCEPT !.users = result.coll])

----
(* Task handlers.  The bodies of create_task, update_task, complete_task   *)
(* and delete_task run inside try / except Exception.                      *)

\* POST /tasks
create_task(r, S, t) ==
    CASE r.pc = "auth" ->
           LET a == check_role(get_current_user(r, S, t), {"admin", "editor"})
           IN  IF a.pc = "done" THEN Result(a, S)
               ELSE IF r.body.user_id # str(a.cur._id)
               THEN Result(ExceptException(
                        HTTPException(a, 403, "Not authorized to create task for this user")), S)
               ELSE Result([a EXCEPT !.pc = "insert"], S)
      [] r.pc = "insert" ->
           LET new_task == [_id |-> NewObjectId(S), user_id |-> r.body.user_id,
                            completed |-> r.body.completed]
           IN  Result(Return(Wrote([r EXCEPT !.new = new_task]), 200, "Task created successfully",
                             str(new_task._id)),
                      [S EXCEPT !.tasks = insert_one(@, new_task), !.nextOid = @ + 1])

\* GET /tasks/{task_id}
get_task(r, S, t) ==
    CASE r.pc = "auth" ->
           LET a == get_current_user(r, S, t)
           IN  IF a.pc = "done" THEN Result(a, S)
               ELSE IF ObjectId(r.id) = None
               THEN Result(HTTPException(a, 400, "Invalid task ID format"), S)
               ELSE Result([a EXCEPT !.pc = "find"], S)
      [] r.pc = "find" ->
           LET task == find_one(S.tasks, [_id |-> ObjectId(r.id), user_id |-> str(r.cur._id)])
           IN  IF task = None
               THEN Result(HTTPException(r, 404, "Task not found or not authorized"), S)
               ELSE Result(Return([r EXCEPT !.doc = task], 200, "",
                                  Set(task, [_id |-> str(task._id)])), S)

\* The ownership test left out.
OwnsTask_Unchecked(task, current_user) == TRUE

\* The ownership test of update_task, complete_task and delete_task.
OwnsTask(task, current_user) == ~(task.user_id # current_user._id)

\* The three handlers up to their store write, after their dependencies
\* answered a: the lookup and the ownership test.
FindOwnTask(r, S, a, denied) ==
    CASE r.pc = "auth" ->
               IF a.pc = "done" THEN Result(a, S)
               ELSE IF ObjectId(r.id) = None
               THEN Result(ExceptException(HTTPException(a, 500, "InvalidId")), S)
               ELSE Result([a EXCEPT !.pc = "find"], S)
      [] r.pc = "find" ->
           LET task == FindById(S.tasks, r.id)
           IN  IF task = None
               THEN Result(ExceptException(HTTPException(r, 404, "Task not found")), S)
               ELSE IF ~OwnsTask(task, r.cur)
               THEN Result(ExceptException(HTTPException([r EXCEPT !.doc = task], 403, denied)), S)
               ELSE Result([r EXCEPT !.pc = "write", !.doc = task], S)

\* PUT /tasks/{task_id}
update_task(r, S, t) ==
    IF r.pc # "write"
    THEN FindOwnTask(r, S, check_role(get_current_user(r, S, t), {"admin", "editor"}),
                     "Not authorized to update this task")
    ELSE Result(Return(Wrote(r), 200, "Task updated", None),
                [S EXCEPT !.tasks = update_one(@, [_id |-> ObjectId(r.id)],
                                               r.body).coll])

\* PATCH /tasks/{task_id}/complete
complete_task(r, S, t) ==
    IF r.pc # "write"
    THEN FindOwnTask(r, S, get_current_user(r, S, t), "Not authorized to complete this task")
    ELSE Result(Return(Wrote(r), 200, "Task marked as completed", None),
                [S EXCEPT !.tasks = update_one(@, [_id |-> ObjectId(r.id)],
                                               [status |-> "completed"]).coll])

\* DELETE /tasks/{task_id}
delete_task(r, S, t) ==
    IF r.pc # "write"
    THEN FindOwnTask(r, S, check_role(get_current_user(r, S, t), {"admin"}),
                     "Not authorized to delete this task")
    ELSE Result(Return(Wrote(r), 200, "Task deleted", None),
                [S EXCEPT !.tasks = delete_one(@, [_id |-> ObjectId(r.id)]).coll])

----
(* The server *)

\* One step of a request: the handler of its route.
Step(r, S, t) ==
    CASE r.op = "login" -> login_for_access_token(r, S, t)
      [] r.op = "create_user" -> create_user(r, S, t)
      [] r.op = "read_users_me" -> read_users_me(r, S, t)
      [] r.op = "get_users" -> get_users(r, S, t)
      [] r.op = "update_user" -> update_user(r, S, t)
      [] r.op = "deactivate_user" -> deactivate_user(r, S, t)
      [] r.op = "delete_user" -> delete_user(r, S, t)
      [] r.op = "create_task" -> create_task(r, S, t)
      [] r.op = "get_task" -> get_task(r, S, t)
      [] r.op = "update_task" -> update_task(r, S, t)
      [] r.op = "complete_task" -> complete_task(r, S, t)
      [] r.op = "delete_task" -> delete_task(r, S, t)

\* The next step of a request that has not been answered yet.
Resume(handler(_, _, _), n, t) == IF n.r.pc = "done" THEN n ELSE handler(n.r, n.S, t)

\* A request served with no other request in between: no handler awaits
\* the store more than three times (get_current_user's lookup, the
\* handler's lookup, its write).
Run(handler(_, _, _), r, S, t) ==
    Resume(handler, Resume(handler, Resume(handler, Result(r, S), t), t), t)

Store == [users |-> users, tasks |-> tasks, nextOid |-> nextOid]

\* What the clients hold: each token an issue answered, with (for the
\* properties only) when, with what lifetime and for which user it was issued.
Issue(token, delta, user) == [token |-> token, at |-> now, delta |-> delta, uid |-> user._id]

Keep(k) == IF Cardinality(tokens \cup {k}) <= MaxTokens THEN tokens \cup {k} ELSE tokens

Kept(r) ==
    IF r.op = "login" /\ r.status = 200
    THEN Keep(Issue(r.out, timedelta(ACCESS_TOKEN_EXPIRE_MINUTES), r.doc))
    ELSE tokens

\* The server answers request req before it takes the next one.
Serve(handler(_, _, _), req) ==
    LET n == Run(handler, req, Store, now)
    IN  /\ users' = n.S.users
        /\ tasks' = n.S.tasks
        /\ nextOid' = n.S.nextOid
        /\ tokens' = Kept(n.r)
        /\ UNCHANGED <<now, inflight>>

----
(* The clients' inputs *)

Ids == {Str(i) : i \in 0..MaxOid}

\* The name each client registers under: one per email.
NameOf(email) == IF email = "a@x" THEN "Ann" ELSE "Bob"

UserBodies == {[email |-> e, name |-> NameOf(e), password |-> "p1", role |-> ro,
                isActived |-> TRUE] : <<e, ro>> \in Emails \X Roles}

LoginForms == [username : Emails, password : Passwords]

UserUpdates == {[email |-> "b@x"], [role |-> "admin"], [password |-> Plain("p2")]}

TaskBodies == [user_id : Ids, completed : {FALSE}]

TaskUpdates == {[completed |-> TRUE]}

Fresh == nextOid <= MaxOid

Login == \E f \in LoginForms : Serve(login_for_access_token, Req("login", None, None, f, "find"))

CreateUser == Fresh /\ Len(users) < MaxUsers /\ \E b \in UserBodies : Serve(create_user, Req("create_user", None, None, b, "find"))

ReadUsersMe == \E k \in tokens : Serve(read_users_me, Req("read_users_me", k.token, None, None, "auth"))

GetUsers == \E k \in tokens : Serve(get_users, Req("get_users", k.token, None, None, "auth"))

UpdateUser == \E k \in tokens, i \in Ids, b \in UserUpdates :
                 Serve(update_user, Req("update_user", k.token, i, b, "auth"))

DeactivateUser == \E k \in tokens, i \in Ids : Serve(deactivate_user, Req("deactivate_user", k.token, i, None, "auth"))

DeleteUser == \E k \in tokens, i \in Ids : Serve(delete_user, Req("delete_user", k.token, i, None, "auth"))

CreateTask == Fresh /\ Len(tasks) < MaxTasks /\ \E k \in tokens, b \in TaskBodies :
                 Serve(create_task, Req("create_task", k.token, None, b, "auth"))

GetTask == \E k \in tokens, i \in Ids : Serve(get_task, Req("get_task", k.token, i, None, "auth"))

UpdateTask == \E k \in tokens, i \in Ids, b \in TaskUpdates :
                 Serve(update_task, Req("update_task", k.token, i, b, "auth"))

CompleteTask == \E k \in tokens, i \in Ids : Serve(complete_task, Req("complete_task", k.token, i, None, "auth"))

DeleteTask == \E k \in tokens, i \in Ids : Serve(delete_task, Req("delete_task", k.token, i, None, "auth"))

\* What serving req in the current state answers and leaves in the store.
Answer(handler(_, _, _), req) == Run(handler, req, Store, now)

Init ==
    /\ users = <<>>
    /\ tasks = <<>>
    /\ nextOid = 1
    /\ now = 0
    /\ tokens = {}
    /\ inflight = {}

Next ==
    \/ Login
    \/ CreateUser
    \/ ReadUsersMe
    \/ GetUsers
    \/ UpdateUser
    \/ DeactivateUser
    \/ DeleteUser
    \/ CreateTask
    \/ GetTask
    \/ UpdateTask
    \/ CompleteTask
    \/ DeleteTask

Spec == Init /\ [][Next]_vars

----
(* The token service on its own: create_access_token called with any      *)
(* lifetime for a stored user, the clock, and GET /users/me as verifier.   *)

Seconds(n) == [t |-> "timedelta", s |-> n]

Deltas == {None, Seconds(0), Seconds(1)}

IssueToken == \E i \in 1..Len(users), d \in Deltas :
                 /\ tokens' = Keep(Issue(create_access_token([sub |-> users[i].email], d, now),
                                         d, users[i]))
                 /\ UNCHANGED <<users, tasks, nextOid, now, inflight>>

\* Time passes between requests.
Tick == /\ now < MaxTime
        /\ now' = now + 1
        /\ UNCHANGED <<users, tasks, nextOid, tokens, inflight>>

NextToken ==
    \/ CreateUser
    \/ IssueToken
    \/ ReadUsersMe
    \/ DeleteUser
    \/ Tick

SpecToken == Init /\ [][NextToken]_vars

----
(* Token expiry (C1, C2), under SpecToken *)

\* The lifetime a token was asked for: the ttl passed, or the default when
\* none was passed.
Lifetime(k) == IF k.delta = None THEN timedelta(DefaultExpireMinutes).s ELSE k.delta.s

\* The user the token was issued for is still in the store under that email.
Stays(k) == \E i \in 1..Len(users) : users[i]._id = k.uid /\ users[i].email = k.token.sub

\* What GET /users/me answers to the token now.
MeOf(k) == Answer(read_users_me, Req("read_users_me", k.token, None, None, "auth"))
Me(k) == MeOf(k).r

\* C1: a token issued at t0 with lifetime ttl for a user that stays in the
\* store is accepted at every time before t0 + ttl and answered 401 at every
\* time from t0 + ttl on.
C1_AcceptedExactlyBeforeExpiry ==
    \A k \in tokens :
        Stays(k) =>
            /\ now < k.at + Lifetime(k) => Me(k).status = 200
            /\ now >= k.at + Lifetime(k) => Me(k).status = 401

\* C2: a token issued with a ttl carries exp = issue time + ttl, also for
\* ttl = 0, and a token issued with ttl = 0 is answered 401 on GET /users/me
\* at any later time.
C2_ExpiryIsIssuePlusTtl ==
    \A k \in tokens :
        k.delta # None =>
            /\ k.token.exp = k.at + k.delta.s
            /\ (k.delta.s = 0 /\ now > k.at /\ Stays(k)) => Me(k).status = 401

----
(* What the server answers in the current state (under Spec) *)

GetTaskOf(k, i) == Answer(get_task, Req("get_task", k.token, i, None, "auth"))
UpdateTaskOf(k, i, b) == Answer(update_task, Req("update_task", k.token, i, b, "auth"))
CompleteTaskOf(k, i) == Answer(complete_task, Req("complete_task", k.token, i, None, "auth"))
DeleteTaskOf(k, i) == Answer(delete_task, Req("delete_task", k.token, i, None, "auth"))
CreateTaskOf(k, b) == Answer(create_task, Req("create_task", k.token, None, b, "auth"))
CreateUserOf(b) == Answer(create_user, Req("create_user", None, None, b, "find"))
GetUsersOf(k) == Answer(get_users, Req("get_users", k.token, None, None, "auth"))
UpdateUserOf(k, i, b) == Answer(update_user, Req("update_user", k.token, i, b, "auth"))
DeactivateUserOf(k, i) == Answer(deactivate_user, Req("deactivate_user", k.token, i, None, "auth"))
DeleteUserOf(k, i) == Answer(delete_user, Req("delete_user", k.token, i, None, "auth"))

\* The answers to a request on task i with token k that may write the task.
TaskWritesOf(k, i) ==
    {UpdateTaskOf(k, i, b) : b \in TaskUpdates} \cup {CompleteTaskOf(k, i), DeleteTaskOf(k, i)}

\* The user a token resolves to now (None: the token is answered 401).
Actor(k) == get_current_user(Req("actor", k.token, None, None, "auth"), Store, now).cur

\* The stored documents with a given id.
TheTask(i) == FindById(tasks, i)
TheUser(i) == FindById(users, i)

Denied(n) == n.r.status >= 400

----
(* Ownership of tasks (C3, C4) *)

\* C3: a non-admin actor whose request on a task is authorized (get_task
\* returns it, or update_task / complete_task / delete_task changes the tasks
\* collection) is the task's owner; a non-admin actor's request on a task
\* owned by another user is denied and leaves the tasks unchanged.
C3_OwnershipInvariant ==
    \A k \in tokens, i \in Ids :
        (Actor(k) # None /\ Actor(k).role # "admin" /\ TheTask(i) # None) =>
            /\ GetTaskOf(k, i).r.status = 200 => TheTask(i).user_id = str(Actor(k)._id)
            /\ \A n \in TaskWritesOf(k, i) :
                   n.S.tasks # tasks => TheTask(i).user_id = str(Actor(k)._id)
            /\ TheTask(i).user_id # str(Actor(k)._id) =>
                   \A n \in TaskWritesOf(k, i) \cup {GetTaskOf(k, i)} :
                       Denied(n) /\ n.S.tasks = tasks

\* A non-admin actor is refused another user's task, and reads its own.
C3_Witness ==
    \E k, m \in tokens, i \in Ids :
        /\ Actor(k) # None /\ Actor(k).role # "admin" /\ TheTask(i) # None
        /\ TheTask(i).user_id # str(Actor(k)._id)
        /\ GetTaskOf(k, i).r.status = 404
        /\ Actor(m) # None /\ Actor(m).role # "admin"
        /\ GetTaskOf(m, i).r.status = 200

\* C4: an authenticated actor acting on a task they own is permitted to
\* read, update and complete it whatever its role; update_task and
\* complete_task by the owner change the stored task and report success.
C4_OwnerMayUpdateAndComplete ==
    \A k \in tokens, i \in Ids :
        (Actor(k) # None /\ TheTask(i) # None /\ TheTask(i).user_id = str(Actor(k)._id)) =>
            /\ GetTaskOf(k, i).r.status = 200
            /\ \A b \in TaskUpdates :
                   /\ UpdateTaskOf(k, i, b).r.status = 200
                   /\ FindById(UpdateTaskOf(k, i, b).S.tasks, i) = Set(TheTask(i), b)
            /\ CompleteTaskOf(k, i).r.status = 200
            /\ FindById(CompleteTaskOf(k, i).S.tasks, i) # TheTask(i)

----
(* Users: self-or-admin and the role gate (C5, C6) *)

UserWritesOf(k, i) == {UpdateUserOf(k, i, b) : b \in UserUpdates} \cup {DeactivateUserOf(k, i)}

\* C5: update_user and deactivate_user on an existing user U are permitted
\* exactly when the actor is U itself or an admin; any other actor is
\* answered 403 and the users collection is unchanged.
C5_SelfOrAdminExactly ==
    \A k \in tokens, i \in Ids :
        (Actor(k) # None /\ TheUser(i) # None) =>
            \A n \in UserWritesOf(k, i) :
                IF Actor(k)._id = TheUser(i)._id \/ Actor(k).role = "admin"
                THEN n.r.status = 200
                ELSE n.r.status = 403 /\ n.S.users = users

Unchanged(n) == n.S.users = users /\ n.S.tasks = tasks

UserIds(coll) == {coll[j]._id : j \in 1..Len(coll)}

\* The answers to every request but delete_user that the clients can send now.
OtherAnswers ==
    {CreateUserOf(b) : b \in UserBodies}
    \cup {Answer(login_for_access_token, Req("login", None, None, f, "find")) : f \in LoginForms}
    \cup UNION {{MeOf(k), GetUsersOf(k)} : k \in tokens}
    \cup UNION {UserWritesOf(k, i) \cup TaskWritesOf(k, i) \cup {GetTaskOf(k, i)} :
                    <<k, i>> \in tokens \X Ids}
    \cup {CreateTaskOf(k, b) : <<k, b>> \in tokens \X TaskBodies}

\* C6: an actor whose role is not in the action's required roles (list
\* users: admin; create and update task: admin or editor; delete task:
\* admin; delete user: admin) is answered 403 with both collections
\* unchanged, and only an admin's delete_user removes a user document.
C6_RoleGate ==
    /\ \A k \in tokens :
          (Actor(k) # None /\ Actor(k).role # "admin") =>
              /\ GetUsersOf(k).r.status = 403 /\ Unchanged(GetUsersOf(k))
              /\ \A i \in Ids :
                     /\ DeleteTaskOf(k, i).r.status = 403 /\ Unchanged(DeleteTaskOf(k, i))
                     /\ DeleteUserOf(k, i).r.status = 403 /\ Unchanged(DeleteUserOf(k, i))
    /\ \A k \in tokens :
          (Actor(k) # None /\ Actor(k).role \notin {"admin", "editor"}) =>
              /\ \A b \in TaskBodies :
                     CreateTaskOf(k, b).r.status = 403 /\ Unchanged(CreateTaskOf(k, b))
              /\ \A i \in Ids, b \in TaskUpdates :
                     UpdateTaskOf(k, i, b).r.status = 403 /\ Unchanged(UpdateTaskOf(k, i, b))
    /\ \A n \in OtherAnswers : UserIds(users) \subseteq UserIds(n.S.users)
    /\ \A k \in tokens, i \in Ids :
          ~(UserIds(users) \subseteq UserIds(DeleteUserOf(k, i).S.users)) =>
              Actor(k) # None /\ Actor(k).role = "admin"

\* A viewer's DELETE on an editor's task is answered 403, and an admin can
\* delete a user.
C6_Witness ==
    /\ \E k \in tokens, i \in Ids, j \in 1..Len(users) :
          /\ Actor(k) # None /\ Actor(k).role = "viewer"
          /\ TheTask(i) # None /\ TheTask(i).user_id = str(users[j]._id)
          /\ users[j].role = "editor"
          /\ DeleteTaskOf(k, i).r.status = 403

----
(* Status codes of the task handlers (C7, C8) *)

\* C7: for an actor that passes the role gate, delete_task, update_task and
\* complete_task on a task id that is not in the collection are answered
\* 404 and leave the store unchanged.
C7_MissingTaskIs404 ==
    \A k \in tokens, i \in Ids :
        (Actor(k) # None /\ ObjectId(i) # None /\ TheTask(i) = None) =>
            /\ Actor(k).role = "admin" =>
                   DeleteTaskOf(k, i).r.status = 404 /\ Unchanged(DeleteTaskOf(k, i))
            /\ Actor(k).role \in {"admin", "editor"} =>
                   \A b \in TaskUpdates :
                       UpdateTaskOf(k, i, b).r.status = 404 /\ Unchanged(UpdateTaskOf(k, i, b))
            /\ CompleteTaskOf(k, i).r.status = 404 /\ Unchanged(CompleteTaskOf(k, i))

\* C8: a request denied by an ownership check inside a handler is answered
\* 403: create_task for another user's user_id; update_task, complete_task
\* and delete_task on a task the actor does not own; update_user and
\* deactivate_user on another user by a non-admin.
C8_OwnershipDenialIs403 ==
    \A k \in tokens :
        Actor(k) # None =>
            /\ \A b \in TaskBodies :
                   (Actor(k).role \in {"admin", "editor"} /\ b.user_id # str(Actor(k)._id)) =>
                       CreateTaskOf(k, b).r.status = 403
            /\ \A i \in Ids :
                   (TheTask(i) # None /\ TheTask(i).user_id # str(Actor(k)._id)) =>
                       /\ Actor(k).role = "admin" => DeleteTaskOf(k, i).r.status = 403
                       /\ Actor(k).role \in {"admin", "editor"} =>
                              \A b \in TaskUpdates : UpdateTaskOf(k, i, b).r.status = 403
                       /\ CompleteTaskOf(k, i).r.status = 403
            /\ \A i \in Ids :
                   (TheUser(i) # None /\ Actor(k).role # "admin"
                    /\ TheUser(i).email # Actor(k).email) =>
                       \A n \in UserWritesOf(k, i) : n.r.status = 403

----
(* Registration (C9) *)

\* C9: create_user with an email some stored user has is answered 400
\* "Email already exists" and leaves the users unchanged; with an email no
\* stored user has it inserts exactly one new user document.
C9_CreateUserChecksEmail ==
    \A b \in UserBodies :
        LET n == CreateUserOf(b)
        IN  IF \E j \in 1..Len(users) : users[j].email = b.email
            THEN n.r.status = 400 /\ n.r.detail = "Email already exists" /\ n.S.users = users
            ELSE /\ n.r.status = 201
                 /\ Len(n.S.users) = Len(users) + 1
                 /\ SubSeq(n.S.users, 1, Len(users)) = users
                 /\ n.S.users[Len(users) + 1].email = b.email
                 /\ n.S.users[Len(users) + 1]._id \notin UserIds(users)

\* One user is stored and a second registration under its email is refused.
C9_Witness ==
    /\ Len(users) = 2
    /\ \E b \in UserBodies : CreateUserOf(b).r.status = 400
    /\ \E b \in UserBodies : CreateUserOf(b).r.status = 201

----
(* Concurrent requests: the event loop runs one coroutine up to its next   *)
(* await of the store, then any coroutine that is ready.  A request is in  *)
(* flight from its first store call to its answer.                         *)

ConcUserBodies == {b \in UserBodies : b.role = "admin"}

ConcLoginForms == [username : Emails, password : {"p1"}]

ConcUserUpdates == {[email |-> "b@x"]}

ConcIds == {Str(i) : i \in 1..MaxUsers}

\* The store and the clients' tokens after a step that answered n.
Effect(n) ==
    /\ n.S.nextOid <= MaxOid + 1
    /\ Len(n.S.users) <= MaxUsers
    /\ users' = n.S.users
    /\ tasks' = n.S.tasks
    /\ nextOid' = n.S.nextOid
    /\ tokens' = Kept(n.r)
    /\ UNCHANGED now

\* A request arrives: its coroutine runs to its second await or to its answer.
Arrive(req) ==
    LET n == Step(req, Store, now)
    IN  /\ Cardinality(inflight) < NumReq
        /\ Effect(n)
        /\ inflight' = IF n.r.pc = "done" THEN inflight ELSE inflight \cup {n.r}

ArriveLogin == \E f \in ConcLoginForms : Arrive(Req("login", None, None, f, "find"))

ArriveCreateUser == \E b \in ConcUserBodies : Arrive(Req("create_user", None, None, b, "find"))

ArriveUpdateUser == \E k \in tokens, i \in ConcIds, b \in ConcUserUpdates :
                       Arrive(Req("update_user", k.token, i, b, "auth"))

ArriveDeactivateUser == \E k \in tokens, i \in ConcIds :
                           Arrive(Req("deactivate_user", k.token, i, None, "auth"))

ArriveDeleteUser == \E k \in tokens, i \in ConcIds :
                       Arrive(Req("delete_user", k.token, i, None, "auth"))

\* The coroutine of a request in flight runs to its next await or to its answer.
Proceed ==
    \E r \in inflight :
        LET n == Step(r, Store, now)
        IN  /\ Effect(n)
            /\ inflight' = (inflight \ {r}) \cup (IF n.r.pc = "done" THEN {} ELSE {n.r})

NextConc ==
    \/ ArriveLogin
    \/ ArriveCreateUser
    \/ ArriveUpdateUser
    \/ ArriveDeactivateUser
    \/ ArriveDeleteUser
    \/ Proceed

SpecConc == Init /\ [][NextConc]_vars

----
(* Email uniqueness (C10), under SpecConc *)

\* C10: no two stored user documents have the same email, after any
\* interleaving of create_user and update_user requests.
C10_EmailsUnique ==
    \A i, j \in 1..Len(users) : users[i].email = users[j].email => i = j

----
(* Stored credentials (C11) *)

\* C11: the password field of every stored user document is an output of
\* hash_password, never a value a client supplied, after any sequence of
\* create_user, update_user and deactivate_user requests.
C11_PasswordsAreHashes ==
    \A j \in 1..Len(users) : \E p \in Passwords : users[j].password = hash_password(p)

----
(* Identity resolution fails closed (C12) *)

\* No stored user has the token's subject as email.
Orphan(k) == \A j \in 1..Len(users) : users[j].email # k.token.sub

\* A string that is no JWT.
Malformed == [kind |-> "garbage"]

\* What the client sees of an answer.
Response(n) == [status |-> n.r.status, detail |-> n.r.detail, headers |-> n.r.headers, out |-> n.r.out]

\* The answers of every authenticated endpoint to a request bearing token x,
\* by route and input.
AuthenticatedAnswers(x) ==
    [read_users_me |-> {Answer(read_users_me, Req("read_users_me", x, None, None, "auth"))},
     get_users |-> {Answer(get_users, Req("get_users", x, None, None, "auth"))},
     update_user |-> {Answer(update_user, Req("update_user", x, i, b, "auth")) :
                          <<i, b>> \in Ids \X UserUpdates},
     deactivate_user |-> {Answer(deactivate_user, Req("deactivate_user", x, i, None, "auth")) : i \in Ids},
     delete_user |-> {Answer(delete_user, Req("delete_user", x, i, None, "auth")) : i \in Ids},
     create_task |-> {Answer(create_task, Req("create_task", x, None, b, "auth")) : b \in TaskBodies},
     get_task |-> {Answer(get_task, Req("get_task", x, i, None, "auth")) : i \in Ids},
     update_task |-> {Answer(update_task, Req("update_task", x, i, b, "auth")) :
                          <<i, b>> \in Ids \X TaskUpdates},
     complete_task |-> {Answer(complete_task, Req("complete_task", x, i, None, "auth")) : i \in Ids},
     delete_task |-> {Answer(delete_task, Req("delete_task", x, i, None, "auth")) : i \in Ids}]

Endpoints == {"read_users_me", "get_users", "update_user", "deactivate_user", "delete_user",
              "create_task", "get_task", "update_task", "complete_task", "delete_task"}

\* C12: once no stored user has email E, every request bearing a correctly
\* signed, unexpired token with subject E is answered 401 on every
\* authenticated endpoint, with the status, message and header of a request
\* with an invalid token, and changes nothing in the store.
C12_OrphanTokenFailsClosed ==
    \A k \in tokens :
        (Orphan(k) /\ jwt_decode(k.token, SECRET_KEY, now).ok) =>
            LET orphan == AuthenticatedAnswers(k.token)
                invalid == AuthenticatedAnswers(Malformed)
            IN  \A e \in Endpoints :
                    \A n \in orphan[e] :
                        /\ n.r.status = 401
                        /\ \A m \in invalid[e] : Response(n) = Response(m)
                        /\ Unchanged(n)

\* A token outlives its user while another user and a task are stored.
C12_Witness ==
    \E k \in tokens :
        /\ Orphan(k) /\ jwt_decode(k.token, SECRET_KEY, now).ok
        /\ Len(users) >= 1 /\ Len(tasks) >= 1
        /\ \A j \in 1..Len(users) : users[j]._id # k.uid
        /\ MeOf(k).r.status = 401

----
(* Login round trip (C13) *)

LoginOf(f) == Answer(login_for_access_token, Req("login", None, None, f, "find"))

\* The document is as create_user stored it for a registration with email
\* E and password P: no request has changed its email (clients register
\* NameOf(E) with E, and no update writes the name) or its password.
Registered(u, E, P) == u.email = E /\ u.name = NameOf(E) /\ u.password = hash_password(P)

\* C13: for a stored user registered with email E and password P whose
\* email and password no request has changed, login with (E, P) issues a
\* bearer token with subject E, and login with (E, P') for P' # P, or with an
\* email no stored user has, is answered 401 and issues no token.
C13_LoginRoundTrip ==
    /\ \A j \in 1..Len(users), E \in Emails, P \in Passwords :
           Registered(users[j], E, P) =>
               /\ LoginOf([username |-> E, password |-> P]).r.status = 200
               /\ LoginOf([username |-> E, password |-> P]).r.out.sub = E
               /\ \A Q \in Passwords \ {P} :
                      /\ LoginOf([username |-> E, password |-> Q]).r.status = 401
                      /\ LoginOf([username |-> E, password |-> Q]).r.out = None
    /\ \A f \in LoginForms :
           (\A j \in 1..Len(users) : users[j].email # f.username) =>
               LoginOf(f).r.status = 401 /\ LoginOf(f).r.out = None

----
(* Uniform authentication failure (C14), under SpecToken *)

\* Tokens the server never issued: signed with another key, no JWT at all,
\* and a signed, unexpired payload without the subject claim.
Forged ==
    {[kind |-> "jwt", sub |-> e, exp |-> now + 1, sig |-> "another key"] : e \in Emails}
    \cup {Malformed}
    \cup {[kind |-> "jwt", sub |-> NoSub, exp |-> now + 1, sig |-> SECRET_KEY]}

\* The tokens that fail one of get_current_user's checks now: the clients'
\* tokens that are expired or name no stored user, and the forged ones.
FailingTokens ==
    {k.token : k \in {h \in tokens : Expired(h.token.exp, now) \/ Orphan(h)}} \cup Forged

UniformResponse ==
    [status |-> 401, detail |-> "Invalid or expired token",
     headers |-> "WWW-Authenticate: Bearer", out |-> None]

\* C14: on every authenticated endpoint a request whose token is expired,
\* has a bad signature, is malformed, lacks the subject claim or names a
\* user absent from the store gets one and the same response (401, the same
\* detail, WWW-Authenticate: Bearer) whichever check fails, so that no two
\* of them differ, and changes nothing in the store.
C14_UniformAuthFailure ==
    \A x \in FailingTokens :
        LET failed == AuthenticatedAnswers(x)
        IN  \A e \in Endpoints :
                \A n \in failed[e] : Response(n) = UniformResponse /\ Unchanged(n)

\* The clients hold an expired token of a stored user and an unexpired token
\* of a deleted one; both are answered 401.
C14_Witness ==
    \E k, h \in tokens :
        /\ Expired(k.token.exp, now) /\ Stays(k)
        /\ ~Expired(h.token.exp, now) /\ Orphan(h)
        /\ Me(k).status = 401 /\ Me(h).status = 401

----
(* Update racing with delete (C15), under SpecConc *)

\* update_user or deactivate_user r has found its user and passed the
\* authorization test, and a delete_user has removed the user since: r's
\* update_one will match no document.
LostRace(r) ==
    /\ r.op \in {"update_user", "deactivate_user"}
    /\ r.pc = "update"
    /\ TheUser(r.id) = None

\* C15: an update_user or deactivate_user whose user was deleted between
\* its find_one and its update_one is answered 404, not 500 and not a
\* success message.
C15_LostUpdateIs404 ==
    \A r \in inflight : LostRace(r) => Step(r, Store, now).r.status = 404

----
(* One guarded store write per request (C16) *)

\* The answers to every request the clients can send now.
AllAnswers == OtherAnswers \cup {DeleteUserOf(k, i) : <<k, i>> \in tokens \X Ids}

\* The number of documents in which two values of a collection differ
\* (2: more than one).
Touched(old, new) ==
    IF Len(new) = Len(old)
    THEN Cardinality({j \in 1..Len(old) : old[j] # new[j]})
    ELSE IF Len(new) = Len(old) + 1
    THEN IF SubSeq(new, 1, Len(old)) = old THEN 1 ELSE 2
    ELSE IF Len(new) + 1 = Len(old)
    THEN IF \E j \in 1..Len(old) :
               new = [i \in 1..Len(new) |-> IF i < j THEN old[i] ELSE old[i + 1]]
         THEN 1 ELSE 2
    ELSE 2

\* The checks of the request's route have passed: its actor is
\* authenticated, has a role the route requires, and passed the handler's
\* own test.  create_user has none.
Authorized(r) ==
    CASE r.op = "create_user" -> TRUE
      [] r.op \in {"update_user", "deactivate_user"} ->
             r.cur # None /\ r.doc # None /\ SelfOrAdmin(r.cur, r.doc)
      [] r.op = "delete_user" -> r.cur # None /\ r.cur.role = "admin"
      [] r.op = "create_task" ->
             r.cur # None /\ r.cur.role \in {"admin", "editor"} /\ r.body.user_id = str(r.cur._id)
      [] r.op = "update_task" ->
             r.cur # None /\ r.cur.role \in {"admin", "editor"} /\ r.doc # None /\ OwnsTask(r.doc, r.cur)
      [] r.op = "complete_task" -> r.cur # None /\ r.doc # None /\ OwnsTask(r.doc, r.cur)
      [] r.op = "delete_task" ->
             r.cur # None /\ r.cur.role = "admin" /\ r.doc # None /\ OwnsTask(r.doc, r.cur)
      [] OTHER -> FALSE

\* C16: every request awaits at most one insert_one, update_one or
\* delete_one, which touches at most one document and comes only after the
\* request's authentication and authorization checks have passed; a
\* request answered 400, 401, 403 or 404 leaves both collections unchanged.
C16_OneGuardedWrite ==
    \A n \in AllAnswers :
        /\ n.r.writes <= 1
        /\ Touched(users, n.S.users) + Touched(tasks, n.S.tasks) <= 1
        /\ (n.r.writes = 0) => Unchanged(n)
        /\ (n.r.writes = 1) => Authorized(n.r)
        /\ n.r.status \in {400, 401, 403, 404} => Unchanged(n)

\* An admin's delete_user removes a user while a non-admin's is answered
\* 403, an update of a missing user 404 and a second registration 400.
C16_Witness ==
    /\ \E k \in tokens, i \in Ids :
           DeleteUserOf(k, i).r.writes = 1 /\ Touched(users, DeleteUserOf(k, i).S.users) = 1
    /\ \E k \in tokens, i \in Ids : DeleteUserOf(k, i).r.status = 403
    /\ \E k \in tokens, i \in Ids : DeactivateUserOf(k, i).r.status = 404
    /\ \E b \in UserBodies : CreateUserOf(b).r.status = 400

----
(* Tokens and the users they were issued for (C17) *)

\* C17: a token get_current_user accepts resolves to the user document
\* (the _id) it was issued for at login, after any sequence of delete_user,
\* update_user and create_user requests.
C17_TokenResolvesToItsUser ==
    \A k \in tokens : Actor(k) # None => Actor(k)._id = k.uid

----
(* Roles change by an admin's request only (C18) *)

\* The role stored for each user id.
RolesOf(coll) == {<<coll[j]._id, coll[j].role>> : j \in 1..Len(coll)}

\* C18: an update_user whose actor is not an admin leaves every stored
\* user's role as it was: a role changes only by a request of an admin.
C18_NoSelfServiceEscalation ==
    \A k \in tokens :
        (Actor(k) # None /\ Actor(k).role # "admin") =>
            \A i \in Ids, b \in UserUpdates :
                RolesOf(UpdateUserOf(k, i, b).S.users) = RolesOf(users)

----
(* Deactivation revokes nothing (C19) *)

\* What a request's answer tells of the decisions taken for it: the
\* response's status, detail and headers, the user its token resolved to
\* and, for a login, the token issued.
Decision(n) ==
    [status |-> n.r.status, detail |-> n.r.detail, headers |-> n.r.headers,
     actor |-> IF n.r.cur = None THEN None ELSE n.r.cur._id,
     token |-> IF n.r.op = "login" THEN n.r.out ELSE None]

Served(handler(_, _, _), reqs, S) == {<<q, Decision(Run(handler, q, S, now))>> : q \in reqs}

\* The decisions on every request the clients can send, were the store S.
DecisionsIn(S) ==
    Served(login_for_access_token, {Req("login", None, None, f, "find") : f \in LoginForms}, S)
    \cup Served(read_users_me, {Req("read_users_me", k.token, None, None, "auth") : k \in tokens}, S)
    \cup Served(get_users, {Req("get_users", k.token, None, None, "auth") : k \in tokens}, S)
    \cup Served(update_user, {Req("update_user", x[1].token, x[2], x[3], "auth") :
                                  x \in tokens \X Ids \X UserUpdates}, S)
    \cup Served(deactivate_user, {Req("deactivate_user", x[1].token, x[2], None, "auth") :
                                      x \in tokens \X Ids}, S)
    \cup Served(delete_user, {Req("delete_user", x[1].token, x[2], None, "auth") :
                                  x \in tokens \X Ids}, S)
    \cup Served(create_task, {Req("create_task", x[1].token, None, x[2], "auth") :
                                  x \in tokens \X TaskBodies}, S)
    \cup Served(get_task, {Req("get_task", x[1].token, x[2], None, "auth") : x \in tokens \X Ids}, S)
    \cup Served(update_task, {Req("update_task", x[1].token, x[2], x[3], "auth") :
                                  x \in tokens \X Ids \X TaskUpdates}, S)
    \cup Served(complete_task, {Req("complete_task", x[1].token, x[2], None, "auth") :
                                    x \in tokens \X Ids}, S)
    \cup Served(delete_task, {Req("delete_task", x[1].token, x[2], None, "auth") :
                                  x \in tokens \X Ids}, S)

\* The stores a deactivate_user the clients can send now leaves, when it
\* sets isActived to False on a user.
AfterDeactivation ==
    {n.S : n \in {m \in {DeactivateUserOf(x[1], x[2]) : x \in tokens \X Ids} :
                      m.r.status = 200 /\ m.S.users # users}}

\* C19: after deactivate_user sets isActived to False on a user, every
\* login and every request with a token is decided exactly as before the
\* deactivation: the same tokens issued, the same tokens accepted for the
\* same users, the same role and ownership decisions.
C19_DeactivationRevokesNothing ==
    LET before == DecisionsIn(Store)
    IN  \A S \in AfterDeactivation : DecisionsIn(S) = before

\* A deactivated admin who owns a task still logs in, and its token is
\* still accepted, passes the role gate and reads the task.
C19_Witness ==
    \E k \in tokens, j \in 1..Len(users), i \in Ids :
        /\ ~users[j].isActived /\ users[j].role = "admin"
        /\ k.uid = users[j]._id /\ Actor(k) # None /\ Actor(k)._id = users[j]._id
        /\ LoginOf([username |-> users[j].email, password |-> "p1"]).r.status = 200
        /\ MeOf(k).r.status = 200
        /\ GetUsersOf(k).r.status = 200
        /\ TheTask(i) # None /\ GetTaskOf(k, i).r.status = 200

====
